---- MODULE Spec2Model ----
(***************************************************************************)
(* A model of the AeroPacer backend: the relational store (users,          *)
(* activities, auth_tokens, analytics_events), the Strava integration      *)
(* (OAuth callback, token refresh, paginated activity sync, disconnect),   *)
(* registration and login, the ML proxy endpoints and the AuthToken        *)
(* validity getters.  Every `await` of a handler is one step of a request  *)
(* process, so that requests interleave exactly where the Node event loop  *)
(* lets them interleave.                                                   *)
(***************************************************************************)
EXTENDS Integers, Sequences, FiniteSets, TLC

(***************************************************************************)
(* Bounds of the model.                                                    *)
(***************************************************************************)
\* number of operations (HTTP requests) started in one behaviour
MaxOps == 2
\* total number of activities Strava returns to one sync in the bounded feeds
MaxFeed == 1
\* the clock runs from 0 to MaxTime
MaxTime == 1

(***************************************************************************)
(* Program constants.                                                      *)
(***************************************************************************)
\* strava.module.ts:257  if (page > 5) hasMorePages = false
StdPageLimit == 5
\* strava.module.ts:383  if (page > 10) hasMorePages = false
ExtPageLimit == 10

\* the stored users of the Strava specifications (uuid primary keys)
UserIds == {1, 2}
\* request processes: one for the sequential specifications, two concurrent
SeqProcs == {1}
ConcProcs == {1, 2}
Procs == ConcProcs

\* the absent value of a nullable column / an undefined local
NoId == 0
NoDate == -1
NoString == ""

VARIABLES
    users,            \* table users: set of rows
    activities,       \* table activities: set of rows
    authTokens,       \* table auth_tokens: set of rows
    analyticsEvents,  \* table analytics_events: set of rows
    nextId,           \* next generated primary key (uuid_generate_v4)
    now,              \* the clock read by new Date()
    issued,           \* number of access tokens Strava has issued
    ops,              \* number of operations started
    req,              \* Strava request processes: locals and program counter
    areq,             \* auth / users request processes: locals and program counter
    deleted,          \* history: ids of the users deleted from the store
    eventOwner,       \* history: <<event id, user id>> of every event stored for a user
    registeredWith,   \* history: <<user id, password>> of every registration
    unlinked,         \* history: users who disconnected Strava and have not connected since
    connectStarted,   \* history: users who asked GET /strava/connect for an authorization URL
    actReq,           \* the activities request in progress: locals and program counter
    mreq,             \* the ML request in progress: locals and program counter
    mlConfig,         \* the ML_SERVICE_URL the backend was started with
    tv,               \* an AuthToken entity and the results of its getters
    treq              \* the analytics request in progress: locals and program counter

dbVars == <<users, activities, authTokens, analyticsEvents, nextId>>
notLink == <<areq, deleted, eventOwner, registeredWith, actReq, mreq, mlConfig, tv, treq>>
notStrava == <<notLink, unlinked, connectStarted>>
notUsers == <<activities, authTokens, analyticsEvents, issued, req, deleted, eventOwner,
              unlinked, connectStarted, actReq, mreq, mlConfig, tv, treq>>
notAuth == <<notUsers, registeredWith>>

(***************************************************************************)
(* Strava activities as the API returns them: id and type are the fields   *)
(* the sync logic reads.                                                   *)
(***************************************************************************)
StravaItems ==
    { [id |-> 1, type |-> "Run", start_date |-> 0],
      [id |-> 2, type |-> "Ride", start_date |-> 0] }

\* pages of one or two items
PagesOfItems(items) ==
    { <<a>> : a \in items } \cup { <<a, b>> : a \in items, b \in items }

\* the non-empty pages Strava may answer with when the feed is bounded by MaxFeed
BoundedPages(all) ==
    { pg \in PagesOfItems(StravaItems) : Len(all) + Len(pg) <= MaxFeed }

\* the non-empty pages of a feed that never ends: the same run on every page
EndlessPages(all) == { << [id |-> 1, type |-> "Run", start_date |-> 0] >> }

(***************************************************************************)
(* AuthToken getters (auth-token.entity).                                  *)
(***************************************************************************)
isExpiredStrict(expiresAt, t) ==
    IF expiresAt = NoDate THEN FALSE ELSE t >= expiresAt

\* get isExpired(): if (!this.expiresAt) return false; return new Date() > this.expiresAt
isExpired(expiresAt, t) ==
    IF expiresAt = NoDate THEN FALSE ELSE t > expiresAt

\* get isValid(): return this.isActive && !this.isExpired
isValid(tok, t) == tok.isActive /\ ~isExpired(tok.expiresAt, t)

(***************************************************************************)
(* Repository queries.                                                     *)
(***************************************************************************)
\* authTokenRepository.findOne({ where: { userId, provider: 'strava', isActive: true } })
\* returns any one matching row; the set of rows it may return
ActiveStravaTokens(u) ==
    { t \in authTokens : t.userId = u /\ t.provider = "strava" /\ t.isActive }

\* a lookup that never matches (the id compared without toString())
ExistingActivityNever(u, sid) == FALSE

\* activityRepository.findOne({ where: { userId, stravaId } }) found a row
ExistingActivity(u, sid) ==
    \E a \in activities : a.userId = u /\ a.stravaId = sid

\* an insert test that looks at the stored rows only
ShouldInsertAnyType(u, a) == ~ExistingActivity(u, a.id)

\* if (!existingActivity && stravaActivity.type === 'Run')
ShouldInsert(u, a) == ~ExistingActivity(u, a.id) /\ a.type = "Run"

\* an update whose criteria match no row
DeactivateNoTokens(u) == authTokens

\* authTokenRepository.update({ userId, provider: 'strava' }, { isActive: false })
DeactivateStravaTokens(u) ==
    { IF t.userId = u /\ t.provider = "strava" THEN [t EXCEPT !.isActive = FALSE] ELSE t
      : t \in authTokens }

(***************************************************************************)
(* Request processes.                                                      *)
(***************************************************************************)
IdleReq ==
    [ pc |-> "idle", op |-> "none", userId |-> NoId,
      accessToken |-> NoId, authTokenId |-> NoId, statusTokenId |-> NoId,
      tokenData |-> [access_token |-> NoId, expires_at |-> NoDate, athlete |-> NoId],
      page |-> 1, allActivities |-> <<>>, idx |-> 1, syncedCount |-> 0,
      syncOutcome |-> "none", result |-> "none",
      \* history of the operation, for the properties
      pageRequests |-> 0, stravaRequests |-> 0, emptySeen |-> FALSE, fetchFailed |-> FALSE,
      refreshed |-> FALSE, exchanged |-> FALSE, startActivities |-> {} ]

Quiet(p) == req[p].pc \in {"idle", "done"}
AllQuiet == \A p \in Procs : Quiet(p)

PageLimit(op) == IF op = "syncExtended" THEN ExtPageLimit ELSE StdPageLimit

\* a callback whose automatic sync is awaited without a catch of its own
FinishFailingWithSync(r, outcome) ==
    [r EXCEPT !.pc = "done", !.syncOutcome = outcome,
              !.result = IF r.op = "callback"
                         THEN (IF outcome = "ok" THEN "redirect:strava_success=true"
                               ELSE "redirect:strava_error=connection_failed")
                         ELSE IF r.op = "status" THEN "connected:true"
                         ELSE outcome]

\* the end of syncUserActivities / getValidStravaToken inside an operation: the
\* OAuth callback swallows a failed automatic sync (strava.controller.ts:64-73),
\* the sync endpoints answer with the outcome of the sync
Finish(r, outcome) ==
    [r EXCEPT !.pc = "done", !.syncOutcome = outcome,
              !.result = IF r.op = "callback" THEN "redirect:strava_success=true"
                         ELSE IF r.op = "status" THEN "connected:true"
                         ELSE outcome]

\* where the caller of getValidStravaToken goes on with the access token
AfterToken(op) == IF op = "status" THEN "cs_athlete" ELSE "fetch"

\* GET /strava/connect behind JwtAuthGuard: getAuthUrl(req.user.id) builds the
\* authorization URL with state = userId; no await
StartConnect(p, u) ==
    /\ Quiet(p) /\ ops < MaxOps
    /\ \E x \in users : x.id = u /\ x.isActive
    /\ req' = [req EXCEPT ![p] = [IdleReq EXCEPT !.pc = "done", !.op = "connect",
                                    !.userId = u, !.startActivities = activities,
                                    !.result = "authUrl"]]
    /\ connectStarted' = connectStarted \cup {u}
    /\ ops' = ops + 1
    /\ UNCHANGED <<notLink, unlinked, dbVars, now, issued>>

\* GET /strava/callback?code=..&state=u (no error parameter); the route has no
\* guard, whoever sends the request
StartCallback(p, u) ==
    /\ Quiet(p) /\ ops < MaxOps
    /\ req' = [req EXCEPT ![p] = [IdleReq EXCEPT !.pc = "ex_post", !.op = "callback",
                                    !.userId = u, !.startActivities = activities]]
    /\ ops' = ops + 1
    /\ UNCHANGED <<notStrava, dbVars, now, issued>>

\* POST /strava/sync and POST /strava/sync/extended, behind JwtAuthGuard
StartSync(p, u, kind) ==
    /\ Quiet(p) /\ ops < MaxOps
    /\ \E x \in users : x.id = u /\ x.isActive
    /\ req' = [req EXCEPT ![p] = [IdleReq EXCEPT !.pc = "gvt_find", !.op = kind,
                                    !.userId = u, !.startActivities = activities]]
    /\ ops' = ops + 1
    /\ UNCHANGED <<notStrava, dbVars, now, issued>>

\* POST /strava/disconnect, behind JwtAuthGuard
StartDisconnect(p, u) ==
    /\ Quiet(p) /\ ops < MaxOps
    /\ \E x \in users : x.id = u /\ x.isActive
    /\ req' = [req EXCEPT ![p] = [IdleReq EXCEPT !.pc = "dc_tokens", !.op = "disconnect",
                                    !.userId = u, !.startActivities = activities]]
    /\ ops' = ops + 1
    /\ UNCHANGED <<notStrava, dbVars, now, issued>>

\* the token response of Strava: a fresh access token, any expiry time
TokenResponses(u) ==
    { [access_token |-> issued + 1, expires_at |-> e, athlete |-> 100 + u]
      : e \in 0..MaxTime }

\* exchangeCodeForToken: axios.post(oauth/token, authorization_code)
ExchangePost(p) ==
    /\ req[p].pc = "ex_post"
    /\ \/ /\ req' = [req EXCEPT ![p].pc = "done", ![p].stravaRequests = @ + 1,
                                ![p].result = "redirect:strava_error=connection_failed"]
          /\ UNCHANGED issued
       \/ \E td \in TokenResponses(req[p].userId) :
            /\ req' = [req EXCEPT ![p].pc = "st_deactivate", ![p].tokenData = td,
                                  ![p].stravaRequests = @ + 1]
            /\ issued' = issued + 1
    /\ UNCHANGED <<notStrava, dbVars, now, ops>>

\* storeStravaToken, first await: deactivate any existing Strava tokens
StoreDeactivate(p) ==
    /\ req[p].pc = "st_deactivate"
    /\ authTokens' = DeactivateStravaTokens(req[p].userId)
    /\ req' = [req EXCEPT ![p].pc = "st_save"]
    /\ UNCHANGED <<notStrava, users, activities, analyticsEvents, nextId, now, issued, ops>>

\* the row storeStravaToken creates
NewTokenRow(p) ==
    [ id |-> nextId, userId |-> req[p].userId, provider |-> "strava",
      accessToken |-> req[p].tokenData.access_token, refreshToken |-> "rt",
      expiresAt |-> req[p].tokenData.expires_at, isActive |-> TRUE,
      \* providerData.athlete is present: the token response of an authorization
      athlete |-> TRUE ]

\* storeStravaToken, second await: authTokenRepository.save(authToken)
StoreSave(p) ==
    /\ req[p].pc = "st_save"
    /\ IF \E x \in users : x.id = req[p].userId
       THEN /\ authTokens' = authTokens \cup { NewTokenRow(p) }
            /\ nextId' = nextId + 1
            /\ req' = [req EXCEPT ![p].pc = "ex_user"]
       ELSE \* FK_auth_tokens_userId: the insert fails, exchangeCodeForToken catches
            /\ req' = [req EXCEPT ![p].pc = "done",
                                  ![p].result = "redirect:strava_error=connection_failed"]
            /\ UNCHANGED <<authTokens, nextId>>
    /\ UNCHANGED <<notStrava, users, activities, analyticsEvents, now, issued, ops>>

\* usersService.updateStravaConnection(userId, athlete.id), then the callback
\* starts the automatic sync
ExchangeUpdateUser(p) ==
    /\ req[p].pc = "ex_user"
    /\ users' = { IF x.id = req[p].userId
                  THEN [x EXCEPT !.stravaId = req[p].tokenData.athlete] ELSE x
                  : x \in users }
    /\ req' = [req EXCEPT ![p].pc = "gvt_find", ![p].exchanged = TRUE]
    /\ unlinked' = unlinked \ {req[p].userId}
    /\ UNCHANGED <<notLink, connectStarted, activities, authTokens, analyticsEvents, nextId,
                   now, issued, ops>>

\* getValidStravaToken: findOne, then the expiry test
GvtFind(p) ==
    /\ req[p].pc = "gvt_find"
    /\ IF ActiveStravaTokens(req[p].userId) = {}
       THEN req' = [req EXCEPT ![p] = Finish(@, "NotFoundException")]
       ELSE \E t \in ActiveStravaTokens(req[p].userId) :
              IF isExpired(t.expiresAt, now)
              THEN req' = [req EXCEPT ![p].pc = "rf_find"]
              ELSE req' = [req EXCEPT ![p].pc = AfterToken(req[p].op),
                                      ![p].accessToken = t.accessToken]
    /\ UNCHANGED <<notStrava, dbVars, now, issued, ops>>

\* refreshStravaToken: findOne
RefreshFind(p) ==
    /\ req[p].pc = "rf_find"
    /\ IF \A t \in ActiveStravaTokens(req[p].userId) : t.refreshToken = NoString
       THEN req' = [req EXCEPT ![p] = Finish(@, "NotFoundException")]
       ELSE \E t \in ActiveStravaTokens(req[p].userId) :
              IF t.refreshToken = NoString
              THEN req' = [req EXCEPT ![p] = Finish(@, "NotFoundException")]
              ELSE req' = [req EXCEPT ![p].pc = "rf_post", ![p].authTokenId = t.id]
    /\ UNCHANGED <<notStrava, dbVars, now, issued, ops>>

\* refreshStravaToken: axios.post(oauth/token, refresh_token)
RefreshPost(p) ==
    /\ req[p].pc = "rf_post"
    /\ \/ /\ req' = [req EXCEPT ![p] = [Finish(@, "BadRequestException:refresh")
                                          EXCEPT !.stravaRequests = @ + 1]]
          /\ UNCHANGED issued
       \/ \E td \in TokenResponses(req[p].userId) :
            /\ req' = [req EXCEPT ![p].pc = "rf_update", ![p].tokenData = td,
                                  ![p].stravaRequests = @ + 1]
            /\ issued' = issued + 1
    /\ UNCHANGED <<notStrava, dbVars, now, ops>>

\* refreshStravaToken: authTokenRepository.update(authToken.id, {...});
\* providerData becomes the refresh response, with or without an athlete
RefreshUpdate(p) ==
    /\ req[p].pc = "rf_update"
    /\ \E ath \in BOOLEAN :
         authTokens' = { IF t.id = req[p].authTokenId
                         THEN [t EXCEPT !.accessToken = req[p].tokenData.access_token,
                                        !.refreshToken = "rt",
                                        !.expiresAt = req[p].tokenData.expires_at,
                                        !.athlete = ath]
                         ELSE t : t \in authTokens }
    /\ req' = [req EXCEPT ![p].pc = "gvt_reread", ![p].refreshed = TRUE]
    /\ UNCHANGED <<notStrava, users, activities, analyticsEvents, nextId, now, issued, ops>>

\* getValidStravaToken: fetch the updated token, return updatedToken.accessToken
GvtReread(p) ==
    /\ req[p].pc = "gvt_reread"
    /\ IF ActiveStravaTokens(req[p].userId) = {}
       THEN \* updatedToken is null: reading .accessToken throws a TypeError
            req' = [req EXCEPT ![p] = Finish(@, "TypeError")]
       ELSE \E t \in ActiveStravaTokens(req[p].userId) :
              req' = [req EXCEPT ![p].pc = AfterToken(req[p].op),
                                 ![p].accessToken = t.accessToken]
    /\ UNCHANGED <<notStrava, dbVars, now, issued, ops>>

\* the limit tested against the page just fetched instead of the next one
MorePagesAfterOffByOne(op, page) == ~(page > PageLimit(op))

\* hasMorePages after a non-empty page: page++; if (page > limit) hasMorePages = false
MorePagesAfter(op, page) == ~(page + 1 > PageLimit(op))

\* the outcome of a page request that failed: the catch of line 281 rethrows
FetchFailedSwallowed(r) ==
    [r EXCEPT !.pc = "ins_find", !.pageRequests = @ + 1, !.stravaRequests = @ + 1,
              !.fetchFailed = TRUE]

FetchFailed(r) ==
    [Finish(r, "BadRequestException:sync")
        EXCEPT !.pageRequests = @ + 1, !.stravaRequests = @ + 1, !.fetchFailed = TRUE]

\* one pass of the while (hasMorePages) loop: axios.get(athlete/activities, page)
FetchPage(p, pages) ==
    /\ req[p].pc = "fetch"
    /\ \/ req' = [req EXCEPT ![p] = FetchFailed(@)]
       \/ \* activities.length === 0
          req' = [req EXCEPT ![p].pc = "ins_find", ![p].pageRequests = @ + 1,
                             ![p].stravaRequests = @ + 1, ![p].emptySeen = TRUE]
       \/ \E pg \in pages :
            req' = [req EXCEPT ![p].allActivities = @ \o pg,
                               ![p].page = @ + 1,
                               ![p].pageRequests = @ + 1,
                               ![p].stravaRequests = @ + 1,
                               ![p].pc = IF MorePagesAfter(req[p].op, req[p].page)
                                         THEN "fetch" ELSE "ins_find"]
    /\ UNCHANGED <<notStrava, dbVars, now, issued, ops>>

\* for (const stravaActivity of allActivities): findOne and the test of line 271
InsertFind(p) ==
    /\ req[p].pc = "ins_find"
    /\ LET r == req[p] IN
       IF r.idx > Len(r.allActivities)
       THEN req' = [req EXCEPT ![p] = Finish(@, "ok")]
       ELSE LET a == r.allActivities[r.idx] IN
            IF ShouldInsert(r.userId, a)
            THEN req' = [req EXCEPT ![p].pc = "ins_save"]
            ELSE req' = [req EXCEPT ![p].idx = @ + 1]
    /\ UNCHANGED <<notStrava, dbVars, now, issued, ops>>

\* createActivityFromStrava: activityRepository.save(activity); syncedCount++
InsertSave(p) ==
    /\ req[p].pc = "ins_save"
    /\ LET r == req[p]
           a == r.allActivities[r.idx]
       IN \/ /\ \E x \in users : x.id = r.userId
             /\ activities' = activities \cup
                    { [id |-> nextId, userId |-> r.userId, stravaId |-> a.id,
                       type |-> a.type, startDate |-> a.start_date] }
             /\ nextId' = nextId + 1
             /\ req' = [req EXCEPT ![p].pc = "ins_find", ![p].idx = @ + 1,
                                   ![p].syncedCount = @ + 1]
          \/ \* the insert is rejected by the database (a numeric(5,2) pace
             \* overflow, a foreign key violation): the catch rethrows
             /\ req' = [req EXCEPT ![p] = Finish(@, "BadRequestException:sync")]
             /\ UNCHANGED <<activities, nextId>>
    /\ UNCHANGED <<notStrava, users, authTokens, analyticsEvents, now, issued, ops>>

\* disconnectStrava, first await: deactivate all Strava tokens of the user
DisconnectTokens(p) ==
    /\ req[p].pc = "dc_tokens"
    /\ authTokens' = DeactivateStravaTokens(req[p].userId)
    /\ req' = [req EXCEPT ![p].pc = "dc_user"]
    /\ UNCHANGED <<notStrava, users, activities, analyticsEvents, nextId, now, issued, ops>>

\* disconnectStrava, second await: userRepository.update(userId, { stravaId: null })
DisconnectUser(p) ==
    /\ req[p].pc = "dc_user"
    /\ users' = { IF x.id = req[p].userId THEN [x EXCEPT !.stravaId = NoId] ELSE x
                  : x \in users }
    /\ req' = [req EXCEPT ![p].pc = "done", ![p].result = "ok"]
    /\ unlinked' = unlinked \cup {req[p].userId}
    /\ UNCHANGED <<notLink, connectStarted, activities, authTokens, analyticsEvents, nextId,
                   now, issued, ops>>

\* GET /strava/status, behind JwtAuthGuard
StartStatus(p, u) ==
    /\ Quiet(p) /\ ops < MaxOps
    /\ \E x \in users : x.id = u /\ x.isActive
    /\ req' = [req EXCEPT ![p] = [IdleReq EXCEPT !.pc = "cs_find", !.op = "status",
                                    !.userId = u, !.startActivities = activities]]
    /\ ops' = ops + 1
    /\ UNCHANGED <<notStrava, dbVars, now, issued>>

\* getConnectionStatus: findOne; without a token connected: false, with the
\* athlete stored connected: true, else the athlete is fetched from Strava
StatusFind(p) ==
    /\ req[p].pc = "cs_find"
    /\ IF ActiveStravaTokens(req[p].userId) = {}
       THEN req' = [req EXCEPT ![p].pc = "done", ![p].result = "connected:false"]
       ELSE \E t \in ActiveStravaTokens(req[p].userId) :
              IF t.athlete
              THEN req' = [req EXCEPT ![p].pc = "done", ![p].result = "connected:true"]
              ELSE req' = [req EXCEPT ![p].pc = "gvt_find", ![p].statusTokenId = t.id]
    /\ UNCHANGED <<notStrava, dbVars, now, issued, ops>>

\* getConnectionStatus: axios.get(athlete); a failure is caught and answered
\* with connected: true (limited info)
StatusAthlete(p) ==
    /\ req[p].pc = "cs_athlete"
    /\ \/ req' = [req EXCEPT ![p].pc = "done", ![p].stravaRequests = @ + 1,
                              ![p].result = "connected:true"]
       \/ req' = [req EXCEPT ![p].pc = "cs_update", ![p].stravaRequests = @ + 1]
    /\ UNCHANGED <<notStrava, dbVars, now, issued, ops>>

\* getConnectionStatus: authTokenRepository.update(authToken.id, { providerData })
StatusUpdate(p) ==
    /\ req[p].pc = "cs_update"
    /\ authTokens' = { IF t.id = req[p].statusTokenId THEN [t EXCEPT !.athlete = TRUE]
                       ELSE t : t \in authTokens }
    /\ req' = [req EXCEPT ![p].pc = "done", ![p].result = "connected:true"]
    /\ UNCHANGED <<notStrava, users, activities, analyticsEvents, nextId, now, issued, ops>>

\* GET /strava/callback with an error parameter, or without code or state: the
\* handler redirects before its first await
CallbackRejected(p, why) ==
    /\ Quiet(p) /\ ops < MaxOps
    /\ req' = [req EXCEPT ![p] = [IdleReq EXCEPT !.pc = "done", !.op = "callback",
                                    !.startActivities = activities,
                                    !.result = "redirect:strava_error=" \o why]]
    /\ ops' = ops + 1
    /\ UNCHANGED <<notStrava, dbVars, now, issued>>

\* time passes
Tick ==
    /\ now < MaxTime
    /\ now' = now + 1
    /\ UNCHANGED <<notStrava, dbVars, issued, ops, req>>

(***************************************************************************)
(* Registration, login and profile update (auth.service, users.service).   *)
(***************************************************************************)
\* number of auth / users requests started in one behaviour
MaxAuthOps == 3

Emails == {"a@x", "b@x"}
Passwords == {"p", "q"}
AuthProcs == {1, 2}
AuthSeqProcs == {1}

EmailOf(u) == IF u = 1 THEN "a@x" ELSE "b@x"

\* bcrypt.hash(password, 12): the stored hash, with the password it was made of
BcryptHash(pw) == [kind |-> "bcrypt", of |-> pw]

\* bcrypt.compare(password, user.password): a stored value that is no bcrypt
\* hash matches nothing
bcryptCompare(pw, stored) == stored.kind = "bcrypt" /\ stored.of = pw

\* a users table without the unique constraint
UniqueEmailNotEnforced(e, id) == TRUE

\* CONSTRAINT "UQ_users_email" UNIQUE ("email"): the row `id` may take email e
UniqueEmailOk(e, id) == \A x \in users : x.email = e => x.id = id

\* a JSON object as a function from its top-level keys to their values; a
\* null column and an absent property of a body spread like the empty object
EmptyBlob == [k \in {} |-> NoString]

\* the preferences objects: any of the keys units and timezone
PreferencesBlobs ==
    { f \in UNION { [K -> {"metric", "imperial", "UTC", "CET"}]
                    : K \in SUBSET {"units", "timezone"} } :
        /\ "units" \in DOMAIN f => f["units"] \in {"metric", "imperial"}
        /\ "timezone" \in DOMAIN f => f["timezone"] \in {"UTC", "CET"} }

\* the profile objects: with or without the key age
ProfileBlobs == UNION { [K -> {30, 40}] : K \in SUBSET {"age"} }

\* a replacement of the stored object by the object of the body
MergeReplace(stored, given) == given

\* { ...stored, ...given }
Merge(stored, given) ==
    [ k \in DOMAIN stored \cup DOMAIN given |->
        IF k \in DOMAIN given THEN given[k] ELSE stored[k] ]

\* preferences: { units: units || 'metric', timezone: timezone || 'UTC' }
RegisteredPreferences == [k \in {"units", "timezone"} |->
                            IF k = "units" THEN "metric" ELSE "UTC"]

NoUser ==
    [ id |-> NoId, email |-> NoString, password |-> [kind |-> "none", of |-> NoString],
      isActive |-> FALSE, stravaId |-> NoId, lastLoginAt |-> NoDate,
      preferences |-> EmptyBlob, profile |-> EmptyBlob ]

\* the request bodies of PUT /users/profile: UpdateProfileDto is an interface, so
\* the ValidationPipe lets every property of the body through
NoBody ==
    [email |-> NoString, password |-> NoString, isActive |-> "unset", stravaId |-> NoId,
     preferences |-> EmptyBlob, profile |-> EmptyBlob]
Bodies ==
    { NoBody,
      [NoBody EXCEPT !.isActive = "false"],
      [NoBody EXCEPT !.password = "q"],
      [NoBody EXCEPT !.email = "b@x"],
      [NoBody EXCEPT !.stravaId = 107] }

\* the request bodies that carry only preferences and profile
BlobBodies ==
    { [NoBody EXCEPT !.preferences = pr, !.profile = pf]
      : pr \in PreferencesBlobs, pf \in ProfileBlobs }

\* a JWT: the payload generateTokens signs (sub, type), whether the signature
\* is the server's, and the instant it expires
NoJwt == [sub |-> NoId, type |-> "none", signed |-> FALSE, exp |-> 0]
Jwts ==
    { [sub |-> u, type |-> t, signed |-> g, exp |-> e]
      : u \in {1, 9}, t \in {"access", "refresh"}, g \in BOOLEAN, e \in {0, MaxTime + 1} }

\* jwtService.verify(token): the signature and the expiry, nothing else
jwtVerify(tok, t) == tok.signed /\ t < tok.exp

IdleAuth ==
    [ pc |-> "idle", op |-> "none", email |-> NoString, password |-> NoString,
      userId |-> NoId, body |-> NoBody, user |-> NoUser, result |-> "none",
      jwt |-> NoJwt,
      \* history of the operation, for the properties
      created |-> NoId, startUsers |-> {} ]

AuthQuiet(p) == areq[p].pc \in {"idle", "done"}

\* POST /auth/register
StartRegister(p, e, pw) ==
    /\ AuthQuiet(p) /\ ops < MaxAuthOps
    /\ areq' = [areq EXCEPT ![p] = [IdleAuth EXCEPT !.pc = "rg_find", !.op = "register",
                                      !.email = e, !.password = pw,
                                      !.startUsers = users]]
    /\ ops' = ops + 1
    /\ UNCHANGED <<notAuth, users, nextId, now>>

\* register: findOne({ where: { email } }), ConflictException when a row exists
RegisterFind(p) ==
    /\ areq[p].pc = "rg_find"
    /\ IF \E x \in users : x.email = areq[p].email
       THEN areq' = [areq EXCEPT ![p].pc = "done", ![p].result = "ConflictException"]
       ELSE areq' = [areq EXCEPT ![p].pc = "rg_save"]
    /\ UNCHANGED <<notAuth, users, nextId, now, ops>>

\* register: bcrypt.hash, userRepository.create and save
RegisterSave(p) ==
    /\ areq[p].pc = "rg_save"
    /\ IF UniqueEmailOk(areq[p].email, NoId)
       THEN LET row == [ id |-> nextId, email |-> areq[p].email,
                         password |-> BcryptHash(areq[p].password),
                         isActive |-> TRUE, stravaId |-> NoId, lastLoginAt |-> NoDate,
                         preferences |-> RegisteredPreferences, profile |-> EmptyBlob ]
            IN /\ users' = users \cup {row}
               /\ nextId' = nextId + 1
               /\ areq' = [areq EXCEPT ![p].pc = "rg_login", ![p].user = row,
                                       ![p].created = row.id]
               /\ registeredWith' = registeredWith \cup {<<row.id, areq[p].password>>}
       ELSE \* the insert violates UQ_users_email: QueryFailedError, status 500
            /\ areq' = [areq EXCEPT ![p].pc = "done", ![p].result = "QueryFailedError"]
            /\ UNCHANGED <<users, nextId, registeredWith>>
    /\ UNCHANGED <<notUsers, now, ops>>

\* userRepository.update(id, { lastLoginAt: new Date() })
TouchLastLogin(id) ==
    { IF x.id = id THEN [x EXCEPT !.lastLoginAt = now] ELSE x : x \in users }

\* register: generateTokens, update lastLoginAt, return the tokens
RegisterLastLogin(p) ==
    /\ areq[p].pc = "rg_login"
    /\ users' = TouchLastLogin(areq[p].user.id)
    /\ areq' = [areq EXCEPT ![p].pc = "done", ![p].result = "tokens"]
    /\ UNCHANGED <<notAuth, nextId, now, ops>>

\* POST /auth/login
StartLogin(p, e, pw) ==
    /\ AuthQuiet(p) /\ ops < MaxAuthOps
    /\ areq' = [areq EXCEPT ![p] = [IdleAuth EXCEPT !.pc = "lg_find", !.op = "login",
                                      !.email = e, !.password = pw,
                                      !.startUsers = users]]
    /\ ops' = ops + 1
    /\ UNCHANGED <<notAuth, users, nextId, now>>

\* login: the rows findOne({ where: { email, isActive: true } }) may return
LoginCandidates(e) == { x \in users : x.email = e /\ x.isActive }

\* login: findOne
LoginFind(p) ==
    /\ areq[p].pc = "lg_find"
    /\ IF LoginCandidates(areq[p].email) = {}
       THEN areq' = [areq EXCEPT ![p].pc = "done",
                                 ![p].result = "UnauthorizedException:Invalid credentials"]
       ELSE \E x \in LoginCandidates(areq[p].email) :
              areq' = [areq EXCEPT ![p].pc = "lg_compare", ![p].user = x]
    /\ UNCHANGED <<notAuth, users, nextId, now, ops>>

\* login: bcrypt.compare(password, user.password)
LoginCompare(p) ==
    /\ areq[p].pc = "lg_compare"
    /\ IF bcryptCompare(areq[p].password, areq[p].user.password)
       THEN areq' = [areq EXCEPT ![p].pc = "lg_update"]
       ELSE areq' = [areq EXCEPT ![p].pc = "done",
                                 ![p].result = "UnauthorizedException:Invalid credentials"]
    /\ UNCHANGED <<notAuth, users, nextId, now, ops>>

\* login: generateTokens, update lastLoginAt, return the tokens
LoginUpdate(p) ==
    /\ areq[p].pc = "lg_update"
    /\ users' = TouchLastLogin(areq[p].user.id)
    /\ areq' = [areq EXCEPT ![p].pc = "done", ![p].result = "tokens"]
    /\ UNCHANGED <<notAuth, nextId, now, ops>>

\* PUT /users/profile behind JwtAuthGuard: the token's user exists and is active
StartUpdateProfile(p, u, body) ==
    /\ AuthQuiet(p) /\ ops < MaxAuthOps
    /\ \E x \in users : x.id = u /\ x.isActive
    /\ areq' = [areq EXCEPT ![p] = [IdleAuth EXCEPT !.pc = "up_find", !.op = "updateProfile",
                                      !.userId = u, !.body = body,
                                      !.startUsers = users]]
    /\ ops' = ops + 1
    /\ UNCHANGED <<notAuth, users, nextId, now>>

\* updateProfile: findOne({ where: { id: userId, isActive: true } })
UpdateProfileFind(p) ==
    /\ areq[p].pc = "up_find"
    /\ IF \E x \in users : x.id = areq[p].userId /\ x.isActive
       THEN \E x \in users :
              /\ x.id = areq[p].userId /\ x.isActive
              /\ areq' = [areq EXCEPT ![p].pc = "up_update", ![p].user = x]
       ELSE areq' = [areq EXCEPT ![p].pc = "done", ![p].result = "NotFoundException"]
    /\ UNCHANGED <<notAuth, users, nextId, now, ops>>

\* the row after UPDATE users SET ...body, preferences, profile WHERE id =
\* userId; the two objects are merged with those of the row read by findOne
ApplyBody(x, read, body) ==
    [x EXCEPT !.preferences = Merge(read.preferences, body.preferences),
              !.profile = Merge(read.profile, body.profile),
              !.email = IF body.email = NoString THEN @ ELSE body.email,
              !.password = IF body.password = NoString THEN @
                           ELSE [kind |-> "plain", of |-> body.password],
              !.isActive = IF body.isActive = "unset" THEN @ ELSE FALSE,
              !.stravaId = IF body.stravaId = NoId THEN @ ELSE body.stravaId]

\* updateProfile: userRepository.update(userId, { ...updateData, preferences, profile })
UpdateProfileUpdate(p) ==
    /\ areq[p].pc = "up_update"
    /\ LET b == areq[p].body IN
       IF b.email = NoString \/ UniqueEmailOk(b.email, areq[p].userId)
       THEN /\ users' = { IF x.id = areq[p].userId THEN ApplyBody(x, areq[p].user, b) ELSE x
                          : x \in users }
            /\ areq' = [areq EXCEPT ![p].pc = "up_reread"]
       ELSE \* the update violates UQ_users_email: QueryFailedError, status 500
            /\ areq' = [areq EXCEPT ![p].pc = "done", ![p].result = "QueryFailedError"]
            /\ UNCHANGED users
    /\ UNCHANGED <<notAuth, nextId, now, ops>>

\* updateProfile: return this.findById(userId)
UpdateProfileReread(p) ==
    /\ areq[p].pc = "up_reread"
    /\ areq' = [areq EXCEPT ![p].pc = "done",
                            ![p].result = IF \E x \in users : x.id = areq[p].userId
                                                               /\ x.isActive
                                          THEN "profile" ELSE "NotFoundException"]
    /\ UNCHANGED <<notAuth, users, nextId, now, ops>>

\* POST /auth/refresh with body { refreshToken }
StartRefresh(p, tok) ==
    /\ AuthQuiet(p) /\ ops < MaxAuthOps
    /\ areq' = [areq EXCEPT ![p] = [IdleAuth EXCEPT !.pc = "rt_validate", !.op = "refresh",
                                      !.jwt = tok, !.startUsers = users]]
    /\ ops' = ops + 1
    /\ UNCHANGED <<notAuth, users, nextId, now>>

\* refreshToken: jwtService.verify, then validateUser(decoded.sub); every error
\* is answered with UnauthorizedException('Invalid refresh token')
RefreshValidate(p) ==
    /\ areq[p].pc = "rt_validate"
    /\ LET tok == areq[p].jwt
           found == { x \in users : x.id = tok.sub /\ x.isActive }
       IN IF jwtVerify(tok, now) /\ found # {}
          THEN \E x \in found :
                 areq' = [areq EXCEPT ![p].pc = "rt_issue", ![p].user = x]
          ELSE areq' = [areq EXCEPT ![p].pc = "done",
                           ![p].result = "UnauthorizedException:Invalid refresh token"]
    /\ UNCHANGED <<notAuth, users, nextId, now, ops>>

\* refreshToken: generateTokens(user), return the new pair
RefreshIssue(p) ==
    /\ areq[p].pc = "rt_issue"
    /\ areq' = [areq EXCEPT ![p].pc = "done", ![p].result = "tokens"]
    /\ UNCHANGED <<notAuth, users, nextId, now, ops>>

(***************************************************************************)
(* Deleting a user: the ON DELETE actions of the foreign keys              *)
(* (InitialMigration, and the relations of the entities).                  *)
(***************************************************************************)
\* a foreign key without ON DELETE CASCADE whose rows are left in place
TokensAfterDeleteNoCascade(u) == authTokens

\* FK_activities_userId ... ON DELETE CASCADE
ActivitiesAfterDelete(u) == { a \in activities : a.userId # u }

\* FK_auth_tokens_userId ... ON DELETE CASCADE
TokensAfterDelete(u) == { t \in authTokens : t.userId # u }

\* FK_analytics_events_userId ... ON DELETE SET NULL
EventsAfterDelete(u) ==
    { IF e.userId = u THEN [e EXCEPT !.userId = NoId] ELSE e : e \in analyticsEvents }

\* DELETE FROM users WHERE id = u
DeleteUser(u) ==
    /\ \E x \in users : x.id = u
    /\ users' = { x \in users : x.id # u }
    /\ activities' = ActivitiesAfterDelete(u)
    /\ authTokens' = TokensAfterDelete(u)
    /\ analyticsEvents' = EventsAfterDelete(u)
    /\ deleted' = deleted \cup {u}
    /\ UNCHANGED <<nextId, now, issued, ops, req, areq, eventOwner, registeredWith, unlinked,
                 connectStarted, actReq, mreq, mlConfig, tv, treq>>

(***************************************************************************)
(* The ML proxy (ml.service, ml.controller).                               *)
(***************************************************************************)
\* ml.service.ts:182 and :259  if (activities.length < 3)
MinActivities == 3
\* number of activities stored for the user who calls the ML endpoints
MaxMlActs == 3

MlEndpoints == {"coaching", "predict", "fatigue", "load", "race", "plan", "next"}
MlConfigs == {"http://localhost:8000", "http://ml-service:8000", "http://ml.example"}

\* the `take` of getRecentActivities in each service method
RecentLimit(ep) ==
    CASE ep = "coaching" -> 30 [] ep = "predict" -> 50 [] ep = "fatigue" -> 20
      [] ep = "load" -> 40 [] ep = "race" -> 30 [] ep = "plan" -> 60 [] OTHER -> 30

Min(a, b) == IF a <= b THEN a ELSE b

InSeq(x, seq) == \E i \in 1..Len(seq) : seq[i] = x

\* Array.from(new Set(list)): insertion order, without duplicates
RECURSIVE Dedup(_)
Dedup(seq) ==
    IF seq = <<>> THEN <<>>
    ELSE LET front == Dedup(SubSeq(seq, 1, Len(seq) - 1))
             last == seq[Len(seq)]
         IN IF InSeq(last, front) THEN front ELSE Append(front, last)

\* the list of base URLs without the Set
MlBasesWithDuplicates(configuredUrl) ==
    IF configuredUrl = "http://localhost:8000"
    THEN <<configuredUrl, "http://ml-service:8000", "http://localhost:8000">>
    ELSE <<configuredUrl, configuredUrl, "http://ml-service:8000", "http://localhost:8000">>

\* callMLService: the base URLs in the order they are tried
MlBases(configuredUrl) ==
    LET isDefaultLocalhost == configuredUrl = "http://localhost:8000"
        orderedBases ==
            IF isDefaultLocalhost
            THEN <<"http://ml-service:8000", "http://localhost:8000">>
            ELSE <<configuredUrl, "http://ml-service:8000", "http://localhost:8000">>
    IN Dedup(<<configuredUrl>> \o orderedBases)

\* every service method answering an error with a static payload
HasFallbackEverywhere(ep) == TRUE

\* the service methods whose catch returns this.getFallback...()
HasFallback(ep) == ep \in {"coaching", "fatigue", "load"}

\* the service methods that reject a user with fewer than MinActivities activities
NeedsActivities(ep) == ep \in {"predict", "race"}

IdleMl ==
    [ pc |-> "idle", endpoint |-> "none", userId |-> NoId, nActs |-> 0,
      baseIdx |-> 1, tried |-> <<>>, mlError |-> "none", thrown |-> 0,
      \* history of callMLService: the outcome at each base contacted, and the
      \* status of the error response of the service
      outcomes |-> <<>>, serviceStatus |-> 0,
      response |-> [status |-> 0, body |-> "none"] ]

\* the catch of a service method, then the controller: a fallback payload is
\* wrapped into a 200 answer, the HttpException 500 of the catch is rethrown
ServiceCatch(r, cause, status) ==
    [r EXCEPT !.pc = "done", !.mlError = cause, !.thrown = status,
              !.response = IF HasFallback(r.endpoint)
                           THEN [status |-> 200, body |-> "fallback"]
                           ELSE [status |-> 500, body |-> "Failed"]]

\* a request to one of the seven ML endpoints, behind JwtAuthGuard
StartMl(ep, u) ==
    /\ mreq.pc \in {"idle", "done"}
    /\ \E x \in users : x.id = u /\ x.isActive
    /\ mreq' = [IdleMl EXCEPT !.pc = "ml_recent", !.endpoint = ep, !.userId = u]
    /\ UNCHANGED <<dbVars, now, issued, ops, req, areq, deleted, eventOwner, registeredWith,
                 unlinked, connectStarted, actReq, mlConfig, tv, treq>>

\* getRecentActivities and the tests on the number of activities
MlRecent ==
    /\ mreq.pc = "ml_recent"
    /\ LET n == Min(RecentLimit(mreq.endpoint),
                    Cardinality({ a \in activities : a.userId = mreq.userId }))
       IN IF mreq.endpoint = "coaching" /\ n = 0
          THEN mreq' = [mreq EXCEPT !.pc = "done", !.nActs = n,
                                    !.response = [status |-> 200, body |-> "welcome"]]
          ELSE IF NeedsActivities(mreq.endpoint) /\ n < MinActivities
          THEN \* the HttpException 400 is thrown inside the try of the method
               mreq' = ServiceCatch([mreq EXCEPT !.nActs = n], "too_few", 400)
          ELSE mreq' = [mreq EXCEPT !.pc = "ml_call", !.nActs = n]
    /\ UNCHANGED <<dbVars, now, issued, ops, req, areq, deleted, eventOwner, registeredWith,
                 unlinked, connectStarted, actReq, mlConfig, tv, treq>>

\* callMLService: axios.post to the next base URL, and what follows from its outcome
MlCall ==
    /\ mreq.pc = "ml_call"
    /\ LET bases == MlBases(mlConfig)
           r == [mreq EXCEPT !.tried = Append(@, bases[mreq.baseIdx])]
       IN \/ \* the service answers: return response.data
             mreq' = [r EXCEPT !.pc = "done", !.outcomes = Append(@, "ok"),
                               !.response = [status |-> 200, body |-> "data"]]
          \/ \* error.response: HttpException with the status of the service
             \E st \in {422, 500} :
                mreq' = ServiceCatch([r EXCEPT !.outcomes = Append(@, "http"),
                                               !.serviceStatus = st], "http", st)
          \/ \* error.request: try the next base, 503 when there is none left
             IF mreq.baseIdx < Len(bases)
             THEN mreq' = [r EXCEPT !.baseIdx = @ + 1, !.outcomes = Append(@, "network")]
             ELSE mreq' = ServiceCatch([r EXCEPT !.outcomes = Append(@, "network")],
                                       "network", 503)
          \/ \* neither: the request could not be set up
             mreq' = ServiceCatch([r EXCEPT !.outcomes = Append(@, "setup")], "setup", 500)
    /\ UNCHANGED <<dbVars, now, issued, ops, req, areq, deleted, eventOwner, registeredWith,
                 unlinked, connectStarted, actReq, mlConfig, tv, treq>>

(***************************************************************************)
(* Activities of a user (activities.service).  Instants are counted in     *)
(* ticks of a day; day 0 is a Monday.                                      *)
(***************************************************************************)
\* instants of one day: the first is 00:00:00.000, the last 23:59:59.999
DayTicks == 2
\* the days the current instant and the start dates are taken from
MaxStatDays == 15

Instants == 0..(MaxStatDays * DayTicks - 1)

DayOf(t) == t \div DayTicks

\* Date.getDay(): 0 is Sunday, 1 is Monday
getDay(t) == (DayOf(t) + 1) % 7

\* setDate(now.getDate() - now.getDay() + 1); setHours(0, 0, 0, 0)
currentWeekStart(t) == (DayOf(t) - getDay(t) + 1) * DayTicks

\* setDate(currentWeekStart.getDate() + 6); setHours(23, 59, 59, 999)
currentWeekEnd(t) == (DayOf(currentWeekStart(t)) + 6) * DayTicks + (DayTicks - 1)

\* allActivities.filter(a => activityDate >= currentWeekStart && activityDate <= currentWeekEnd)
thisWeekActivities(rows, t) ==
    { a \in rows : a.startDate >= currentWeekStart(t) /\ a.startDate <= currentWeekEnd(t) }

IdleAct ==
    [ pc |-> "idle", op |-> "none", userId |-> NoId, activityId |-> NoId, at |-> 0,
      thisWeek |-> 0, result |-> "none", startActivities |-> {} ]

ActQuiet == actReq.pc \in {"idle", "done"}

\* GET /activities/stats, behind JwtAuthGuard
StartStats(u) ==
    /\ ActQuiet
    /\ \E x \in users : x.id = u /\ x.isActive
    /\ actReq' = [IdleAct EXCEPT !.pc = "gs_find", !.op = "stats", !.userId = u,
                                 !.startActivities = activities]
    /\ UNCHANGED <<dbVars, now, issued, ops, req, areq, deleted, eventOwner, registeredWith,
                 unlinked, connectStarted, mreq, mlConfig, tv, treq>>

\* getUserStats: activityRepository.find({ where: { userId } }), then the
\* statistics at the instant new Date() returns
StatsFind ==
    /\ actReq.pc = "gs_find"
    /\ LET rows == { a \in activities : a.userId = actReq.userId } IN
       \E t \in Instants :
         actReq' = [actReq EXCEPT !.pc = "done", !.at = t, !.result = "stats",
                                  !.thisWeek = IF rows = {} THEN 0
                                               ELSE Cardinality(thisWeekActivities(rows, t))]
    /\ UNCHANGED <<dbVars, now, issued, ops, req, areq, deleted, eventOwner, registeredWith,
                 unlinked, connectStarted, mreq, mlConfig, tv, treq>>

\* a lookup by the id alone
ActivityOfAnyUser(u, id) == { a \in activities : a.id = id }

\* activityRepository.findOne({ where: { id: activityId, userId } })
ActivityOf(u, id) == { a \in activities : a.id = id /\ a.userId = u }

\* the ids a request may name: the stored rows and one that is not stored
ActivityIds == {11, 12, 13, 19}

\* GET /activities/:id and DELETE /activities/:id, behind JwtAuthGuard
StartActivity(kind, u, id) ==
    /\ ActQuiet
    /\ \E x \in users : x.id = u /\ x.isActive
    /\ actReq' = [IdleAct EXCEPT !.pc = "ga_find", !.op = kind, !.userId = u,
                                 !.activityId = id, !.startActivities = activities]
    /\ UNCHANGED <<dbVars, now, issued, ops, req, areq, deleted, eventOwner, registeredWith,
                 unlinked, connectStarted, mreq, mlConfig, tv, treq>>

\* getActivityById: findOne, NotFoundException without a row
ActivityFind ==
    /\ actReq.pc = "ga_find"
    /\ IF ActivityOf(actReq.userId, actReq.activityId) = {}
       THEN actReq' = [actReq EXCEPT !.pc = "done", !.result = "NotFoundException"]
       ELSE IF actReq.op = "get"
            THEN actReq' = [actReq EXCEPT !.pc = "done", !.result = "activity"]
            ELSE actReq' = [actReq EXCEPT !.pc = "da_remove"]
    /\ UNCHANGED <<dbVars, now, issued, ops, req, areq, deleted, eventOwner, registeredWith,
                 unlinked, connectStarted, mreq, mlConfig, tv, treq>>

\* deleteActivity: activityRepository.remove(activity)
ActivityRemove ==
    /\ actReq.pc = "da_remove"
    /\ activities' = { a \in activities : a.id # actReq.activityId }
    /\ actReq' = [actReq EXCEPT !.pc = "done", !.result = "deleted"]
    /\ UNCHANGED <<users, authTokens, analyticsEvents, nextId, now, issued, ops, req, areq,
                   deleted, eventOwner, registeredWith, unlinked, connectStarted, mreq,
                   mlConfig, tv, treq>>

(***************************************************************************)
(* Analytics (analytics.service).                                          *)
(***************************************************************************)
\* some values of the EventType enum
EventTypes == {"user_login", "workout_completed"}

\* customProperties of a TrackEventDto
EventProperties == {"none", "distance"}

IdleTrack ==
    [ pc |-> "idle", mixpanel |-> FALSE, eventType |-> "none", userId |-> NoId,
      properties |-> "none", success |-> FALSE, startEvents |-> {} ]

\* trackEvent(eventData): with a Mixpanel client the event goes to Mixpanel first
StartTrack(ev, u, props) ==
    /\ treq.pc \in {"idle", "done"}
    /\ treq' = [IdleTrack EXCEPT !.pc = IF treq.mixpanel THEN "tr_mixpanel" ELSE "tr_store",
                                 !.mixpanel = treq.mixpanel,
                                 !.eventType = ev, !.userId = u, !.properties = props,
                                 !.startEvents = analyticsEvents]
    /\ UNCHANGED <<dbVars, now, issued, ops, req, areq, deleted, eventOwner, registeredWith,
                 unlinked, connectStarted, actReq, mreq, mlConfig, tv>>

\* await this.trackMixpanelEvent(...): the callback of mixpanel.track resolves
\* or rejects; a rejection is caught and answered with success: false
TrackMixpanel ==
    /\ treq.pc = "tr_mixpanel"
    /\ \/ treq' = [treq EXCEPT !.pc = "tr_store"]
       \/ treq' = [treq EXCEPT !.pc = "done", !.success = FALSE]
    /\ UNCHANGED <<dbVars, now, issued, ops, req, areq, deleted, eventOwner, registeredWith,
                 unlinked, connectStarted, actReq, mreq, mlConfig, tv>>

\* await this.storeAnalyticsEvent(...): a debug log line, no repository call;
\* then trackEvent returns success: true
TrackStore ==
    /\ treq.pc = "tr_store"
    /\ treq' = [treq EXCEPT !.pc = "done", !.success = TRUE]
    /\ UNCHANGED <<dbVars, now, issued, ops, req, areq, deleted, eventOwner, registeredWith,
                 unlinked, connectStarted, actReq, mreq, mlConfig, tv>>

(***************************************************************************)
(* Reading the getters of an AuthToken entity.                             *)
(***************************************************************************)
\* the dates of the entities whose getters are read run from 0 to MaxDate
MaxDate == 4

IdleTv ==
    [ isActive |-> FALSE, expiresAt |-> NoDate, at |-> 0, pc |-> "fresh",
      expired |-> FALSE, valid |-> FALSE ]

\* token.isExpired and token.isValid are read at time tv.at
ReadGetters ==
    /\ tv.pc = "fresh"
    /\ tv' = [tv EXCEPT !.pc = "read",
                        !.expired = isExpired(tv.expiresAt, tv.at),
                        !.valid = isValid(tv, tv.at)]
    /\ UNCHANGED <<dbVars, now, issued, ops, req, areq, deleted, eventOwner, registeredWith,
                 unlinked, connectStarted, actReq, mreq, mlConfig, treq>>

\* time passes before the getters are read again
LaterRead ==
    /\ tv.pc = "read" /\ tv.at < MaxDate
    /\ tv' = [tv EXCEPT !.pc = "fresh", !.at = @ + 1]
    /\ UNCHANGED <<dbVars, now, issued, ops, req, areq, deleted, eventOwner, registeredWith,
                 unlinked, connectStarted, actReq, mreq, mlConfig, treq>>

(***************************************************************************)
(* Initial states.                                                         *)
(***************************************************************************)
\* the row of a user who registered with password "p" and is logged in
RegisteredUser(u) ==
    [ id |-> u, email |-> EmailOf(u), password |-> BcryptHash("p"), isActive |-> TRUE,
      stravaId |-> NoId, lastLoginAt |-> 0,
      preferences |-> RegisteredPreferences, profile |-> EmptyBlob ]

NoRequests ==
    /\ now = 0
    /\ issued = 0
    /\ ops = 0
    /\ req = [p \in Procs |-> IdleReq]
    /\ areq = [p \in AuthProcs |-> IdleAuth]
    /\ mreq = IdleMl
    /\ actReq = IdleAct
    /\ treq = IdleTrack

\* the database after the migrations: no rows
InitAuth ==
    /\ users = {}
    /\ activities = {}
    /\ authTokens = {}
    /\ analyticsEvents = {}
    /\ nextId = 1
    /\ deleted = {}
    /\ eventOwner = {}
    /\ registeredWith = {}
    /\ unlinked = {}
    /\ connectStarted = {}
    /\ mlConfig = "http://localhost:8000"
    /\ tv = IdleTv
    /\ NoRequests

\* two registered users, nothing else stored, no request in progress
InitStrava ==
    /\ users = { RegisteredUser(u) : u \in UserIds }
    /\ activities = {}
    /\ authTokens = {}
    /\ analyticsEvents = {}
    /\ nextId = 3
    /\ deleted = {}
    /\ eventOwner = {}
    /\ registeredWith = { <<u, "p">> : u \in UserIds }
    /\ unlinked = {}
    /\ connectStarted = {}
    /\ mlConfig = "http://localhost:8000"
    /\ tv = IdleTv
    /\ NoRequests

\* rows the store may hold for two registered users
StoredActivities ==
    { [id |-> 11, userId |-> 1, stravaId |-> 1, type |-> "Run", startDate |-> 0],
      [id |-> 12, userId |-> 1, stravaId |-> 2, type |-> "Run", startDate |-> 0],
      [id |-> 13, userId |-> 2, stravaId |-> 1, type |-> "Run", startDate |-> 0] }
StoredTokens ==
    { [id |-> 21, userId |-> 1, provider |-> "strava", accessToken |-> 1,
       refreshToken |-> "rt", expiresAt |-> 1, isActive |-> TRUE, athlete |-> TRUE],
      [id |-> 22, userId |-> 2, provider |-> "strava", accessToken |-> 2,
       refreshToken |-> "rt", expiresAt |-> 1, isActive |-> FALSE, athlete |-> TRUE] }
StoredEvents ==
    { [id |-> 31, userId |-> 1, event |-> "page_view"],
      [id |-> 32, userId |-> 2, event |-> "user_login"],
      [id |-> 33, userId |-> NoId, event |-> "page_view"] }

\* two registered users with any of these activities, tokens and events
InitStore ==
    /\ users = { RegisteredUser(u) : u \in UserIds }
    /\ activities \in SUBSET StoredActivities
    /\ authTokens \in SUBSET StoredTokens
    /\ analyticsEvents \in SUBSET StoredEvents
    /\ nextId = 40
    /\ deleted = {}
    /\ eventOwner = { <<e.id, e.userId>> : e \in { x \in analyticsEvents : x.userId # NoId } }
    /\ registeredWith = { <<u, "p">> : u \in UserIds }
    /\ unlinked = {}
    /\ connectStarted = {}
    /\ mlConfig = "http://localhost:8000"
    /\ tv = IdleTv
    /\ NoRequests

\* two registered users, the first with 0..MaxMlActs activities, and a backend
\* started with any of the ML service URLs
InitMl ==
    /\ users = { RegisteredUser(u) : u \in UserIds }
    /\ \E k \in 0..MaxMlActs :
         activities = { [id |-> 10 + i, userId |-> 1, stravaId |-> i, type |-> "Run",
                         startDate |-> 0]
                        : i \in 1..k }
    /\ authTokens = {}
    /\ analyticsEvents = {}
    /\ nextId = 40
    /\ deleted = {}
    /\ eventOwner = {}
    /\ registeredWith = { <<u, "p">> : u \in UserIds }
    /\ unlinked = {}
    /\ connectStarted = {}
    /\ mlConfig \in MlConfigs
    /\ tv = IdleTv
    /\ NoRequests

\* start dates around the ends of two weeks: Sunday of week 0, Monday and
\* Sunday of week 1, Monday of week 2
StatsActivities ==
    { [id |-> 10 + i, userId |-> 1, stravaId |-> i, type |-> "Run",
       startDate |-> 7 * DayTicks * ((i + 1) \div 2) - (i % 2)] : i \in 1..4 }
    \cup { [id |-> 15, userId |-> 2, stravaId |-> 1, type |-> "Run",
            startDate |-> 7 * DayTicks] }

\* two registered users with any of these activities
InitStats ==
    /\ users = { RegisteredUser(u) : u \in UserIds }
    /\ activities \in SUBSET StatsActivities
    /\ authTokens = {}
    /\ analyticsEvents = {}
    /\ nextId = 40
    /\ deleted = {}
    /\ eventOwner = {}
    /\ registeredWith = { <<u, "p">> : u \in UserIds }
    /\ unlinked = {}
    /\ connectStarted = {}
    /\ mlConfig = "http://localhost:8000"
    /\ tv = IdleTv
    /\ NoRequests

\* two registered users with any of the stored activities
InitActs ==
    /\ users = { RegisteredUser(u) : u \in UserIds }
    /\ activities \in SUBSET StoredActivities
    /\ authTokens = {}
    /\ analyticsEvents = {}
    /\ nextId = 40
    /\ deleted = {}
    /\ eventOwner = {}
    /\ registeredWith = { <<u, "p">> : u \in UserIds }
    /\ unlinked = {}
    /\ connectStarted = {}
    /\ mlConfig = "http://localhost:8000"
    /\ tv = IdleTv
    /\ NoRequests

\* two registered users, any of the stored events, and a backend started with
\* or without a MIXPANEL_TOKEN
InitTrack ==
    /\ users = { RegisteredUser(u) : u \in UserIds }
    /\ activities = {}
    /\ authTokens = {}
    /\ analyticsEvents \in SUBSET StoredEvents
    /\ nextId = 40
    /\ deleted = {}
    /\ eventOwner = { <<e.id, e.userId>> : e \in { x \in analyticsEvents : x.userId # NoId } }
    /\ registeredWith = { <<u, "p">> : u \in UserIds }
    /\ unlinked = {}
    /\ connectStarted = {}
    /\ mlConfig = "http://localhost:8000"
    /\ tv = IdleTv
    /\ now = 0
    /\ issued = 0
    /\ ops = 0
    /\ req = [p \in Procs |-> IdleReq]
    /\ areq = [p \in AuthProcs |-> IdleAuth]
    /\ mreq = IdleMl
    /\ actReq = IdleAct
    /\ treq \in { [IdleTrack EXCEPT !.mixpanel = m] : m \in BOOLEAN }

\* two registered users whose preferences and profile hold any of the objects
InitProfile ==
    /\ \E pr \in PreferencesBlobs, pf \in ProfileBlobs :
         users = { [RegisteredUser(u) EXCEPT !.preferences = pr, !.profile = pf]
                   : u \in UserIds }
    /\ activities = {}
    /\ authTokens = {}
    /\ analyticsEvents = {}
    /\ nextId = 3
    /\ deleted = {}
    /\ eventOwner = {}
    /\ registeredWith = { <<u, "p">> : u \in UserIds }
    /\ unlinked = {}
    /\ connectStarted = {}
    /\ mlConfig = "http://localhost:8000"
    /\ tv = IdleTv
    /\ NoRequests

\* any AuthToken entity, read at any time
InitValid ==
    /\ users = {}
    /\ activities = {}
    /\ authTokens = {}
    /\ analyticsEvents = {}
    /\ nextId = 1
    /\ deleted = {}
    /\ eventOwner = {}
    /\ registeredWith = {}
    /\ unlinked = {}
    /\ connectStarted = {}
    /\ mlConfig = "http://localhost:8000"
    /\ tv \in { [IdleTv EXCEPT !.isActive = a, !.expiresAt = e, !.at = t]
                : a \in BOOLEAN, e \in {NoDate} \cup 0..MaxDate, t \in 0..MaxDate }
    /\ NoRequests

(***************************************************************************)
(* Specifications of the Strava integration.                               *)
(***************************************************************************)
\* the steps of a request in progress
StepReq(p, pages) ==
    \/ ExchangePost(p)
    \/ StoreDeactivate(p)
    \/ StoreSave(p)
    \/ ExchangeUpdateUser(p)
    \/ GvtFind(p)
    \/ RefreshFind(p)
    \/ RefreshPost(p)
    \/ RefreshUpdate(p)
    \/ GvtReread(p)
    \/ FetchPage(p, pages)
    \/ InsertFind(p)
    \/ InsertSave(p)
    \/ DisconnectTokens(p)
    \/ DisconnectUser(p)

\* a request arrives
StartReq(p) ==
    \E u \in UserIds :
        \/ StartCallback(p, u)
        \/ StartSync(p, u, "sync")
        \/ StartSync(p, u, "syncExtended")
        \/ StartDisconnect(p, u)

vars == <<users, activities, authTokens, analyticsEvents, nextId, now, issued, ops, req,
          areq, deleted, eventOwner, registeredWith, unlinked, connectStarted, actReq,
          mreq, mlConfig, tv, treq>>

\* completed, non-overlapping operations: one request process
NextSeq ==
    \/ \E p \in SeqProcs : StartReq(p)
    \/ \E p \in SeqProcs : StepReq(p, BoundedPages(req[p].allActivities))
    \/ Tick

SpecSeq == InitStrava /\ [][NextSeq]_vars

\* requests of two clients interleave at every await
NextConc ==
    \/ \E p \in ConcProcs : StartReq(p)
    \/ \E p \in ConcProcs : StepReq(p, BoundedPages(req[p].allActivities))
    \/ Tick

SpecConc == InitStrava /\ [][NextConc]_vars

\* sequential requests against a Strava feed that never runs out of pages
NextPages ==
    \/ \E p \in SeqProcs : StartReq(p)
    \/ \E p \in SeqProcs : StepReq(p, EndlessPages(req[p].allActivities))
    \/ Tick

SpecPages == InitStrava /\ [][NextPages]_vars

(***************************************************************************)
(* Specifications of the other parts.                                      *)
(***************************************************************************)
StartAuth(p) ==
    \/ \E e \in Emails, pw \in Passwords : StartRegister(p, e, pw)
    \/ \E e \in Emails, pw \in Passwords : StartLogin(p, e, pw)
    \/ \E u \in 1..2, b \in Bodies : StartUpdateProfile(p, u, b)

StepAuth(p) ==
    \/ RegisterFind(p)
    \/ RegisterSave(p)
    \/ RegisterLastLogin(p)
    \/ LoginFind(p)
    \/ LoginCompare(p)
    \/ LoginUpdate(p)
    \/ UpdateProfileFind(p)
    \/ UpdateProfileUpdate(p)
    \/ UpdateProfileReread(p)

\* auth and profile requests of two clients interleave at every await; the
\* clock stands still, it only stamps lastLoginAt
NextAuth ==
    \/ \E p \in AuthProcs : StartAuth(p)
    \/ \E p \in AuthProcs : StepAuth(p)

SpecAuth == InitAuth /\ [][NextAuth]_vars

\* auth and profile requests one after the other
NextAuthSeq ==
    \/ \E p \in AuthSeqProcs : StartAuth(p)
    \/ \E p \in AuthSeqProcs : StepAuth(p)
    \/ \E p \in AuthSeqProcs, tok \in Jwts : StartRefresh(p, tok)
    \/ \E p \in AuthSeqProcs : RefreshValidate(p) \/ RefreshIssue(p)
    \/ Tick

SpecAuthSeq == InitAuth /\ [][NextAuthSeq]_vars

\* Strava requests, status requests and profile updates one after the other
NextLink ==
    \/ \E p \in SeqProcs : (\A q \in AuthSeqProcs : AuthQuiet(q)) /\ StartReq(p)
    \/ \E p \in SeqProcs, u \in UserIds :
         (\A q \in AuthSeqProcs : AuthQuiet(q)) /\ StartStatus(p, u)
    \/ \E p \in SeqProcs, why \in {"access_denied", "missing_params"} :
         (\A q \in AuthSeqProcs : AuthQuiet(q)) /\ CallbackRejected(p, why)
    \/ \E p \in SeqProcs : StepReq(p, BoundedPages(req[p].allActivities))
    \/ \E p \in SeqProcs : StatusFind(p) \/ StatusAthlete(p) \/ StatusUpdate(p)
    \/ \E p \in AuthSeqProcs, u \in UserIds, body \in Bodies :
         (\A q \in SeqProcs : Quiet(q)) /\ StartUpdateProfile(p, u, body)
    \/ \E p \in AuthSeqProcs :
         UpdateProfileFind(p) \/ UpdateProfileUpdate(p) \/ UpdateProfileReread(p)
    \/ Tick

SpecLink == InitStrava /\ [][NextLink]_vars

NextStats == (\E u \in UserIds : StartStats(u)) \/ StatsFind

SpecStats == InitStats /\ [][NextStats]_vars

\* connect, callback and disconnect requests one after the other, with the
\* clock standing still: no token expires
NextOAuth ==
    \/ \E p \in SeqProcs, u \in UserIds : StartConnect(p, u)
    \/ \E p \in SeqProcs, u \in UserIds : StartCallback(p, u)
    \/ \E p \in SeqProcs, why \in {"access_denied", "missing_params"} :
         CallbackRejected(p, why)
    \/ \E p \in SeqProcs, u \in UserIds : StartDisconnect(p, u)
    \/ \E p \in SeqProcs :
         \/ ExchangePost(p) \/ StoreDeactivate(p) \/ StoreSave(p) \/ ExchangeUpdateUser(p)
         \/ GvtFind(p) \/ FetchPage(p, BoundedPages(req[p].allActivities))
         \/ InsertFind(p) \/ InsertSave(p)
         \/ DisconnectTokens(p) \/ DisconnectUser(p)

SpecOAuth == InitStrava /\ [][NextOAuth]_vars

NextActs ==
    \/ \E kind \in {"get", "delete"}, u \in UserIds, id \in ActivityIds :
         StartActivity(kind, u, id)
    \/ ActivityFind
    \/ ActivityRemove

SpecActs == InitActs /\ [][NextActs]_vars

NextTrack ==
    \/ \E ev \in EventTypes, u \in UserIds \cup {NoId}, props \in EventProperties :
         StartTrack(ev, u, props)
    \/ TrackMixpanel
    \/ TrackStore

SpecTrack == InitTrack /\ [][NextTrack]_vars

\* profile updates one after the other
NextProfile ==
    \/ \E p \in AuthSeqProcs, u \in UserIds, body \in BlobBodies :
         StartUpdateProfile(p, u, body)
    \/ \E p \in AuthSeqProcs :
         UpdateProfileFind(p) \/ UpdateProfileUpdate(p) \/ UpdateProfileReread(p)

SpecProfile == InitProfile /\ [][NextProfile]_vars

NextStore == \E u \in UserIds : DeleteUser(u)

SpecStore == InitStore /\ [][NextStore]_vars

NextMl ==
    \/ \E ep \in MlEndpoints, u \in UserIds : StartMl(ep, u)
    \/ MlRecent
    \/ MlCall

SpecMl == InitMl /\ [][NextMl]_vars

NextValid == ReadGetters \/ LaterRead

SpecValid == InitValid /\ [][NextValid]_vars

(***************************************************************************)
(* Properties.                                                             *)
(***************************************************************************)
StravaIds == { a.id : a \in StravaItems }

\* C1: after any sequence of completed, non-overlapping syncs (the automatic
\* one of the OAuth callback, the standard and the extended one), no two stored
\* Activity rows have the same (userId, stravaId).
C1_NoDuplicateActivity ==
    \A a, b \in activities :
        (a.userId = b.userId /\ a.stravaId = b.stravaId) => a.id = b.id

\* a sync ended successfully after it met a run that was already stored for
\* the user, and inserted nothing
C1_Witness ==
    \E p \in SeqProcs :
        LET r == req[p] IN
        /\ r.pc = "done" /\ r.syncOutcome = "ok" /\ r.syncedCount = 0
        /\ r.startActivities = activities
        /\ \E i \in 1..Len(r.allActivities) :
             /\ r.allActivities[i].type = "Run"
             /\ ExistingActivity(r.userId, r.allActivities[i].id)

\* C11: every Activity row a sync created has type 'Run', and the synced count
\* a successful sync returns is the number of Activity rows it created.
C11_OnlyRunsStoredAndCounted ==
    /\ \A a \in activities : a.type = "Run"
    /\ \A p \in SeqProcs :
         LET r == req[p] IN
         (r.pc = "done" /\ r.syncOutcome = "ok") =>
             /\ r.startActivities \subseteq activities
             /\ r.syncedCount = Cardinality(activities \ r.startActivities)

\* a successful sync was answered a ride: it stored and counted nothing, next
\* to the run an earlier sync stored and counted for the same user
C11_Witness ==
    \E p \in SeqProcs :
        LET r == req[p] IN
        /\ r.pc = "done" /\ r.syncOutcome = "ok" /\ r.syncedCount = 0
        /\ \E i \in 1..Len(r.allActivities) : r.allActivities[i].type = "Ride"
        /\ activities = r.startActivities
        /\ \E a \in activities : a.userId = r.userId /\ a.type = "Run"

\* a connect (OAuth callback) for user u is in progress
Connecting(u) ==
    \E p \in Procs : req[p].op = "callback" /\ req[p].userId = u /\ ~Quiet(p)

\* C12: after disconnectStrava(u) has completed and until the next successful
\* connect for u, every Strava AuthToken of u is inactive and u.stravaId is
\* null, getConnectionStatus(u) reports connected: false, and a sync for u
\* fails with NotFoundException without sending a request to Strava.
C12_DisconnectedUntilNextConnect ==
    \A u \in unlinked :
        /\ ~Connecting(u) =>
             /\ ActiveStravaTokens(u) = {}
             /\ \A x \in users : x.id = u => x.stravaId = NoId
        /\ \A p \in SeqProcs :
             LET r == req[p] IN
             (r.pc = "done" /\ r.userId = u) =>
                /\ r.op = "status" => r.result = "connected:false"
                /\ r.op \in {"sync", "syncExtended"} =>
                     /\ r.result = "NotFoundException"
                     /\ r.stravaRequests = 0

\* the tokens and the status and sync answers of C12, without the stravaId
DisconnectedTokensAndAnswers ==
    \A u \in unlinked :
        /\ ~Connecting(u) => ActiveStravaTokens(u) = {}
        /\ \A p \in SeqProcs :
             LET r == req[p] IN
             (r.pc = "done" /\ r.userId = u) =>
                /\ r.op = "status" => r.result = "connected:false"
                /\ r.op \in {"sync", "syncExtended"} =>
                     /\ r.result = "NotFoundException"
                     /\ r.stravaRequests = 0

\* the automatic sync of a callback has been started
SyncAttempted(r) ==
    \/ r.pc \in {"gvt_find", "rf_find", "rf_post", "rf_update", "gvt_reread", "fetch",
                 "ins_find", "ins_save"}
    \/ r.syncOutcome # "none"

\* C13: in the OAuth callback the automatic sync is attempted only after the
\* token exchange has succeeded; the callback redirects with
\* strava_success=true whenever the exchange succeeded, whatever the outcome of
\* the sync; a request with an error parameter or without code or state
\* attempts neither exchange nor sync and is redirected with strava_error.
C13_CallbackOrder ==
    \A p \in SeqProcs :
        LET r == req[p] IN
        r.op = "callback" =>
            /\ SyncAttempted(r) => r.exchanged
            /\ (r.pc = "done" /\ r.exchanged) =>
                  /\ r.result = "redirect:strava_success=true"
                  /\ r.syncOutcome # "none"
            /\ (r.pc = "done" /\ ~r.exchanged) =>
                  r.result \in { "redirect:strava_error=connection_failed",
                                 "redirect:strava_error=access_denied",
                                 "redirect:strava_error=missing_params" }
            /\ r.result \in { "redirect:strava_error=access_denied",
                              "redirect:strava_error=missing_params" } =>
                  /\ r.stravaRequests = 0 /\ ~r.exchanged /\ ~SyncAttempted(r)

\* a callback whose exchange succeeded and whose automatic sync failed on a page
\* request was redirected with strava_success=true
C13_Witness ==
    \E p \in SeqProcs :
        LET r == req[p] IN
        /\ r.op = "callback" /\ r.pc = "done" /\ r.exchanged
        /\ r.syncOutcome = "BadRequestException:sync"
        /\ r.result = "redirect:strava_success=true"

\* a callback with an error parameter was redirected without a request to Strava
C13_WitnessRejected ==
    \E p \in SeqProcs :
        /\ req[p].op = "callback" /\ req[p].pc = "done"
        /\ req[p].result = "redirect:strava_error=access_denied"

\* the activities of user u that start in the Monday-to-Sunday calendar week
\* of the instant t
CalendarWeekActivities(u, t) ==
    LET monday == DayOf(t) - (DayOf(t) % 7) IN
    { a \in activities : /\ a.userId = u
                         /\ a.startDate >= monday * DayTicks
                         /\ a.startDate <= (monday + 6) * DayTicks + (DayTicks - 1) }

\* C14: on every day of the week, getUserStats.thisWeek counts exactly the
\* user's activities that start in the Monday 00:00:00.000 to Sunday
\* 23:59:59.999 calendar week that contains the current instant.
C14_ThisWeekIsCalendarWeek ==
    (actReq.op = "stats" /\ actReq.pc = "done") =>
        actReq.thisWeek = Cardinality(CalendarWeekActivities(actReq.userId, actReq.at))

\* the same from Monday to Saturday only
ThisWeekIsCalendarWeekButSunday ==
    (actReq.op = "stats" /\ actReq.pc = "done" /\ getDay(actReq.at) # 0) =>
        actReq.thisWeek = Cardinality(CalendarWeekActivities(actReq.userId, actReq.at))

\* C15: a Strava token is stored for a user, and the user's stravaId is set,
\* only after that user asked for an authorization through the authenticated
\* GET /strava/connect: a callback that names the user in its state parameter
\* without such a request links no Strava account to the user.
C15_LinkOnlyAfterOwnConnect ==
    /\ \A t \in authTokens : t.provider = "strava" => t.userId \in connectStarted
    /\ \A x \in users : x.stravaId # NoId => x.id \in connectStarted

\* C16: whatever the body contains, updateProfile(u, body) changes no column of
\* a user row other than firstName, lastName, preferences and profile of user
\* u: never email, password, isActive or stravaId, and no other user's row.
\* (The rows of the model hold none of the four columns it may change.)
C16_UpdateProfileFrame ==
    \A p \in AuthSeqProcs :
        (areq[p].op = "updateProfile" /\ areq[p].pc = "done") => users = areq[p].startUsers

\* updateProfile(u, body) changes no row of another user
UpdateProfileLeavesOtherUsers ==
    \A p \in AuthSeqProcs :
        (areq[p].op = "updateProfile" /\ areq[p].pc = "done") =>
            \A x \in areq[p].startUsers : x.id # areq[p].userId => x \in users

\* C17: POST /auth/refresh issues a new token pair only for a validly signed,
\* unexpired token of type 'refresh' whose subject is an active user; an access
\* token presented as refresh token is rejected with UnauthorizedException.
C17_RefreshOnlyWithRefreshToken ==
    \A p \in AuthSeqProcs :
        LET r == areq[p] IN
        (r.op = "refresh" /\ r.pc = "done") =>
            /\ r.result = "tokens" =>
                  /\ r.jwt.signed /\ r.jwt.type = "refresh"
                  /\ \E x \in users : x.id = r.jwt.sub /\ x.isActive
            /\ r.jwt.type = "access" =>
                  r.result = "UnauthorizedException:Invalid refresh token"

\* the same without the type of the token
RefreshOnlyWithVerifiedToken ==
    \A p \in AuthSeqProcs :
        LET r == areq[p] IN
        (r.op = "refresh" /\ r.pc = "done") =>
            /\ r.result = "tokens" =>
                  /\ r.jwt.signed /\ now < r.jwt.exp
                  /\ \E x \in users : x.id = r.jwt.sub /\ x.isActive
            /\ r.result # "tokens" =>
                  r.result = "UnauthorizedException:Invalid refresh token"

C18_WitnessOwn ==
    /\ actReq.op = "delete" /\ actReq.pc = "done" /\ actReq.result = "deleted"
    /\ \E a \in activities : a.userId = actReq.userId
    /\ \E a \in activities : a.userId # actReq.userId

\* C19: each user has at most one active Strava AuthToken in every reachable
\* state, also when two OAuth callbacks for the same user interleave their
\* deactivate and insert steps.
C19_AtMostOneActiveStravaToken ==
    \A u \in UserIds : Cardinality(ActiveStravaTokens(u)) <= 1

\* the same, for requests that do not overlap
OneActiveStravaTokenSequentially ==
    \A u \in UserIds :
        \A s, t \in ActiveStravaTokens(u) : s.id = t.id

\* a disconnect for user u is in progress
Disconnecting(u) ==
    \E p \in Procs : req[p].op = "disconnect" /\ req[p].userId = u /\ ~Quiet(p)

\* C20: whenever no connect or disconnect is in progress for a user, the
\* user's stravaId is non-null exactly when the user has an active Strava
\* token, after any sequence and interleaving of exchangeCodeForToken and
\* disconnectStrava.
C20_StravaIdIffActiveToken ==
    \A u \in UserIds :
        (~Connecting(u) /\ ~Disconnecting(u)) =>
            \A x \in users :
                x.id = u => ((x.stravaId # NoId) <=> (ActiveStravaTokens(u) # {}))

\* the same, at the end of requests that did not overlap
StravaIdIffActiveTokenSequentially ==
    AllQuiet =>
        \A x \in users : (x.stravaId = NoId) <=> (ActiveStravaTokens(x.id) = {})

\* getValidStravaToken of request r has ended, with a token or a failure
TokenDecided(r) ==
    /\ r.op \in {"callback", "sync", "syncExtended", "status"}
    /\ \/ r.pc \in {"fetch", "cs_athlete", "ins_find", "ins_save"}
       \/ r.pc = "done" /\ r.syncOutcome # "none"

\* C21: getValidStravaToken(u) either returns the accessToken of an active
\* AuthToken row of u or fails with NotFoundException or BadRequestException;
\* it fails in no other way, also when a disconnectStrava(u) interleaves
\* between its refresh and its re-read of the token.
C21_ValidTokenOrDeclaredFailure ==
    \A p \in Procs :
        TokenDecided(req[p]) =>
            \/ req[p].accessToken # NoId /\ req[p].accessToken <= issued
            \/ req[p].syncOutcome \in {"NotFoundException", "BadRequestException:refresh"}

\* the same at the end of requests that do not overlap
ValidTokenOrDeclaredFailureSequentially ==
    \A p \in SeqProcs :
        TokenDecided(req[p]) =>
            \/ req[p].accessToken # NoId /\ req[p].accessToken <= issued
            \/ req[p].syncOutcome \in {"NotFoundException", "BadRequestException:refresh"}

\* C22: when the user has fewer than 3 stored activities, predictPerformance
\* and getRaceStrategy are rejected with status 400, and that status is what
\* the ML controller returns to the client.
C22_TooFewActivitiesAnswers400 ==
    (mreq.pc = "done" /\ mreq.endpoint \in {"predict", "race"}
        /\ mreq.nActs < MinActivities) =>
        /\ mreq.thrown = 400
        /\ mreq.response.status = 400

\* the part of C22 inside the service method: the 400 is thrown, before any
\* call to the ML service
TooFewActivitiesThrows400 ==
    (mreq.pc = "done" /\ mreq.endpoint \in {"predict", "race"}
        /\ mreq.nActs < MinActivities) =>
        /\ mreq.thrown = 400 /\ mreq.mlError = "too_few" /\ mreq.tried = <<>>

\* C23: callMLService contacts each distinct base URL at most once, moves on
\* to the next base only after a network-level failure, stops with an
\* HttpException carrying the service's status as soon as a base answers with
\* an HTTP error response, returns the first successful response, and throws
\* 503 'ML service unavailable' exactly when every base failed at network
\* level.
C23_CallMLServiceBases ==
    LET n == Len(mreq.tried)
        all == {"http://localhost:8000", "http://ml-service:8000", mlConfig}
    IN /\ Len(mreq.outcomes) = n
       /\ \A i, j \in 1..n : mreq.tried[i] = mreq.tried[j] => i = j
       /\ \A i \in 1..n : mreq.tried[i] \in all
       /\ \A i \in 1..(n - 1) : mreq.outcomes[i] = "network"
       /\ (mreq.pc = "ml_call" /\ n > 0) => mreq.outcomes[n] = "network"
       /\ (mreq.pc = "done" /\ n > 0) =>
            /\ mreq.outcomes[n] = "ok" => (mreq.thrown = 0 /\ mreq.response.body = "data")
            /\ mreq.outcomes[n] = "http" =>
                 (mreq.mlError = "http" /\ mreq.thrown = mreq.serviceStatus)
            /\ mreq.mlError = "network" <=>
                 /\ \A i \in 1..n : mreq.outcomes[i] = "network"
                 /\ { mreq.tried[i] : i \in 1..n } = all
            /\ mreq.mlError = "network" => mreq.thrown = 503

\* the first base could not be reached and the second one answered
C23_Witness ==
    /\ mreq.pc = "done" /\ Len(mreq.tried) = 2
    /\ mreq.outcomes = <<"network", "ok">>
    /\ mreq.response.body = "data"

\* every base was contacted once, none could be reached: 503
C23_WitnessUnavailable ==
    /\ mreq.pc = "done" /\ mreq.mlError = "network" /\ mreq.thrown = 503
    /\ Len(mreq.tried) = 3 /\ mlConfig = "http://ml.example"

\* the AnalyticsEvent rows stored since the trackEvent call began that carry
\* its event name and userId
RowsOfTrackedEvent ==
    { e \in analyticsEvents \ treq.startEvents :
        e.event = treq.eventType /\ e.userId = treq.userId }

\* C24: every trackEvent call that resolves with success: true has stored
\* exactly one AnalyticsEvent row for that event (with its event name and
\* optional userId) in the database.
C24_TrackedEventIsStored ==
    (treq.pc = "done" /\ treq.success) =>
        /\ Cardinality(RowsOfTrackedEvent) = 1
        /\ Cardinality(analyticsEvents) = Cardinality(treq.startEvents) + 1

\* what trackEvent does to the table: nothing, whatever it answers
TrackEventStoresNothing ==
    treq.pc # "idle" => analyticsEvents = treq.startEvents

\* object `after` is object `before` with the keys of `given` set to the values
\* of `given`, and nothing else
MergedInto(before, given, after) ==
    /\ DOMAIN after = DOMAIN before \cup DOMAIN given
    /\ \A k \in DOMAIN before \ DOMAIN given : after[k] = before[k]
    /\ \A k \in DOMAIN given : after[k] = given[k]

\* C25: after updateProfile(u, d) every top-level key of u's stored
\* preferences and profile that is absent from d.preferences / d.profile keeps
\* its previous value, every key present in d takes the value from d, and an
\* update without preferences or profile leaves that blob's keys unchanged.
C25_UpdateProfileMerges ==
    \A p \in AuthSeqProcs :
        (areq[p].op = "updateProfile" /\ areq[p].pc \in {"up_reread", "done"}
            /\ areq[p].result # "NotFoundException") =>
            \A old \in areq[p].startUsers, new \in users :
                (old.id = areq[p].userId /\ new.id = areq[p].userId) =>
                    /\ MergedInto(old.preferences, areq[p].body.preferences,
                                  new.preferences)
                    /\ MergedInto(old.profile, areq[p].body.profile, new.profile)
                    /\ areq[p].body.preferences = EmptyBlob =>
                         new.preferences = old.preferences
                    /\ areq[p].body.profile = EmptyBlob => new.profile = old.profile

\* an update that carried only units changed units, kept timezone and left the
\* profile as it was
C25_Witness ==
    \E p \in AuthSeqProcs :
        /\ areq[p].op = "updateProfile" /\ areq[p].pc = "done"
        /\ areq[p].result = "profile"
        /\ DOMAIN areq[p].body.preferences = {"units"}
        /\ areq[p].body.profile = EmptyBlob
        /\ \E old \in areq[p].startUsers, new \in users :
             /\ old.id = areq[p].userId /\ new.id = areq[p].userId
             /\ DOMAIN old.preferences = {"units", "timezone"}
             /\ old.preferences["units"] # new.preferences["units"]
             /\ new.preferences["timezone"] = old.preferences["timezone"]
             /\ DOMAIN old.profile = {"age"} /\ new.profile = old.profile

\* C2: also when two syncs of the same user interleave their find-then-insert
\* steps, every Strava activity is stored at most once for that user.
C2_StoredAtMostOnceUnderConcurrency ==
    \A u \in UserIds, sid \in StravaIds :
        Cardinality({ a \in activities : a.userId = u /\ a.stravaId = sid }) <= 1

\* C6: the page loop sends at most 5 requests in the standard sync (and in the
\* automatic sync of the callback) and at most 10 in the extended sync, and
\* sends no request after an empty page.
C6_PageLoopBounded ==
    \A p \in SeqProcs :
        LET r == req[p] IN
        /\ r.op = "syncExtended" => r.pageRequests <= ExtPageLimit
        /\ r.op \in {"sync", "callback"} => r.pageRequests <= StdPageLimit
        /\ r.pc = "fetch" =>
             /\ ~r.emptySeen
             /\ r.pageRequests < (IF r.op = "syncExtended" THEN ExtPageLimit
                                  ELSE StdPageLimit)

\* an extended sync got ten non-empty pages and went on to the inserts
C6_Witness ==
    \E p \in SeqProcs :
        LET r == req[p] IN
        /\ r.op = "syncExtended" /\ r.pc = "ins_find"
        /\ r.pageRequests = ExtPageLimit /\ ~r.emptySeen
        /\ Len(r.allActivities) = ExtPageLimit

\* C7: when a page request fails, the sync is rejected with
\* BadRequestException, every page was requested once (the failed request is
\* not sent again), and no Activity row was created or changed.
C7_FailedPageRejectsWithoutWrites ==
    \A p \in SeqProcs :
        LET r == req[p] IN
        r.fetchFailed =>
            /\ r.pc = "done"
            /\ r.syncOutcome = "BadRequestException:sync"
            /\ r.pageRequests = r.page
            /\ r.syncedCount = 0
            /\ activities = r.startActivities

\* the request for the second page failed after a first page with a run that
\* is not stored
C7_Witness ==
    \E p \in SeqProcs :
        LET r == req[p] IN
        /\ r.fetchFailed /\ r.pageRequests = 2
        /\ \E i \in 1..Len(r.allActivities) :
             /\ r.allActivities[i].type = "Run"
             /\ ~ExistingActivity(r.userId, r.allActivities[i].id)

\* C9 as stated: after any sequence of connect, refresh and disconnect
\* operations there is at most one AuthToken row per (userId, provider).
C9_OneRowPerUserProvider ==
    AllQuiet =>
        \A s, t \in authTokens :
            (s.userId = t.userId /\ s.provider = t.provider) => s.id = t.id

\* C9 as amended: after any sequence of connect, refresh and disconnect
\* operations there is at most one active AuthToken row per (userId, provider).
C9_OneActiveRowPerUserProvider ==
    AllQuiet =>
        \A s, t \in authTokens :
            (s.userId = t.userId /\ s.provider = t.provider /\ s.isActive /\ t.isActive)
                => s.id = t.id

\* a user who connected twice: two rows, the older one inactive
C9_Witness ==
    /\ AllQuiet
    /\ \E s, t \in authTokens :
         /\ s.userId = t.userId /\ s.provider = t.provider
         /\ s.id # t.id /\ ~s.isActive /\ t.isActive

\* C3: no two User rows have the same email, and a register request that was
\* answered with an error created no row.
C3_UniqueEmail ==
    /\ \A x, y \in users : x.email = y.email => x.id = y.id
    /\ \A p \in AuthProcs :
         (areq[p].op = "register"
            /\ areq[p].result \in {"ConflictException", "QueryFailedError"})
                => areq[p].created = NoId

\* a register request passed the findOne, and its insert was rejected because
\* a concurrent request had stored the email in between
C3_Witness ==
    \E p \in AuthProcs :
        /\ areq[p].op = "register" /\ areq[p].result = "QueryFailedError"
        /\ \E x \in users : x.email = areq[p].email
        /\ \A x \in areq[p].startUsers : x.email # areq[p].email

\* the users are as they were when the request started, but for lastLoginAt of u
SameUsersButLastLogin(before, after, u) ==
    /\ { x.id : x \in before } = { x.id : x \in after }
    /\ \A x \in before, y \in after :
         x.id = y.id =>
            IF x.id = u THEN [y EXCEPT !.lastLoginAt = x.lastLoginAt] = x ELSE x = y

\* what login decides on: it returns tokens exactly when an active row with the
\* email holds the bcrypt hash of the given password in its password column;
\* every other login ends with UnauthorizedException('Invalid credentials') and
\* leaves the users unchanged
LoginDecidesOnStoredPassword ==
    \A p \in AuthSeqProcs :
        LET r == areq[p]
            match == { x \in r.startUsers : x.email = r.email /\ x.isActive
                                            /\ x.password = BcryptHash(r.password) }
        IN (r.op = "login" /\ r.pc = "done") =>
                /\ (r.result = "tokens") <=> (match # {})
                /\ match = {} =>
                     /\ r.result = "UnauthorizedException:Invalid credentials"
                     /\ users = r.startUsers
                /\ match # {} =>
                     \E x \in match : SameUsersButLastLogin(r.startUsers, users, x.id)

\* C5: login returns tokens exactly when a user with the email exists, is
\* active and the given password is the one the user registered with (so a user
\* who registered with p can log in with p); every other login ends with
\* UnauthorizedException('Invalid credentials') and leaves the users unchanged.
C5_LoginOutcome ==
    \A p \in AuthSeqProcs :
        LET r == areq[p]
            match == { x \in r.startUsers : x.email = r.email /\ x.isActive
                                            /\ <<x.id, r.password>> \in registeredWith }
        IN (r.op = "login" /\ r.pc = "done") =>
                /\ (r.result = "tokens") <=> (match # {})
                /\ match = {} =>
                     /\ r.result = "UnauthorizedException:Invalid credentials"
                     /\ users = r.startUsers

\* C4 as stated: after the deletion of a user no Activity, AuthToken or
\* AnalyticsEvent row that belonged to the user remains.
C4_NoChildRemains ==
    /\ \A a \in activities : a.userId \notin deleted
    /\ \A t \in authTokens : t.userId \notin deleted
    /\ \A o \in eventOwner :
         o[2] \in deleted => ~\E e \in analyticsEvents : e.id = o[1]

\* C4 as amended: after the deletion of a user none of its Activity and
\* AuthToken rows remains, and every AnalyticsEvent row that belonged to the
\* user remains with userId null.
C4_CascadeAndSetNull ==
    /\ \A a \in activities : a.userId \notin deleted
    /\ \A t \in authTokens : t.userId \notin deleted
    /\ \A o \in eventOwner :
         o[2] \in deleted =>
            \E e \in analyticsEvents : e.id = o[1] /\ e.userId = NoId
    /\ \A e \in analyticsEvents : e.userId \notin deleted

\* user 1 was deleted with all three of its kinds of rows stored: its event is
\* still there, the rows of user 2 are untouched
C4_Witness ==
    /\ deleted = {1}
    /\ <<31, 1>> \in eventOwner
    /\ \E e \in analyticsEvents : e.id = 31
    /\ \E a \in activities : a.userId = 2
    /\ \E t \in authTokens : t.userId = 2

\* the call to the ML service failed: an HTTP error response, or no base URL
\* could be reached
MlCallFailed == mreq.pc = "done" /\ mreq.mlError \in {"http", "network"}

\* C8 as stated: whenever the call to the ML service fails, every ML endpoint
\* answers with a static fallback payload.
C8_FallbackOnEveryEndpoint ==
    MlCallFailed => mreq.response = [status |-> 200, body |-> "fallback"]

\* C8 as amended: whenever the call to the ML service fails, coaching
\* recommendations, fatigue analysis and training load answer with a static
\* fallback payload, and performance prediction, race strategy, training plan
\* and next workout answer with an HttpException of status 500.
C8_FallbackOrInternalError ==
    MlCallFailed =>
        IF mreq.endpoint \in {"coaching", "fatigue", "load"}
        THEN mreq.response = [status |-> 200, body |-> "fallback"]
        ELSE mreq.response = [status |-> 500, body |-> "Failed"]

\* no base URL could be reached, and the fatigue analysis answered its fallback
C8_Witness ==
    /\ MlCallFailed /\ mreq.mlError = "network" /\ mreq.endpoint = "fatigue"
    /\ Len(mreq.tried) = Len(MlBases(mlConfig))
    /\ mreq.response.body = "fallback"

\* C10: a token is valid exactly when it is active and not expired; without
\* expiresAt it is never expired, with expiresAt it is expired exactly when
\* the current time is strictly later.
C10_ValidIffActiveAndNotExpired ==
    tv.pc = "read" =>
        /\ tv.valid <=> (tv.isActive /\ ~tv.expired)
        /\ tv.expiresAt = NoDate => ~tv.expired
        /\ tv.expiresAt # NoDate => (tv.expired <=> tv.at > tv.expiresAt)

\* an active token read at the very instant of its expiresAt is valid
C10_Witness ==
    /\ tv.pc = "read" /\ tv.isActive /\ tv.expiresAt # NoDate
    /\ tv.at = tv.expiresAt /\ tv.valid

====
